---- MODULE Spec2Model ----
(***************************************************************************)
(* Model of the file-storage gateway (Fastify service, index.ts).          *)
(*                                                                         *)
(* Strings that the code takes apart (the base64 `file` string, original   *)
(* file names, the :fileName route parameter) are sequences of characters, *)
(* each character a one-character string; an opaque run of characters that *)
(* holds no '.' and no '/' (a UUID, the word "media") may stand as one     *)
(* element.  Strings that are only compared (environment, folder) are      *)
(* plain strings.  A filesystem path is the sequence of its segments.      *)
(***************************************************************************)
EXTENDS Integers, Sequences, FiniteSets, Bags, TLC

(***************************************************************************)
(* Bounds of the model.                                                    *)
(***************************************************************************)
MaxInFlight == 2      \* requests being handled at the same time
MaxUploads == 2       \* uploads that reach generateFileName in one run
MaxSerial == 1        \* requests being handled at the same time, serial service

(***************************************************************************)
(* Configuration: lines 10-18.                                             *)
(***************************************************************************)
BASE_PATH == <<"var", "cdn-storage">>

ENVIRONMENTS == <<"production", "development">>

FOLDER_MAP == [production |-> "media", development |-> "media-dev"]

CDN_BASE == <<"https://cdn.citydash.kz">>

(***************************************************************************)
(* Character-sequence helpers.                                             *)
(***************************************************************************)
Range(s) == {s[i] : i \in 1..Len(s)}

RECURSIVE Join(_)
Join(cs) == IF cs = <<>> THEN "" ELSE Head(cs) \o Join(Tail(cs))

\* String.prototype.split("/") : the segments between the separators.
RECURSIVE SplitSlash(_, _)
SplitSlash(cs, cur) ==
    IF cs = <<>> THEN <<cur>>
    ELSE IF Head(cs) = "/" THEN <<cur>> \o SplitSlash(Tail(cs), <<>>)
    ELSE SplitSlash(Tail(cs), Append(cur, Head(cs)))

\* Index of the last element of cs equal to c, 0 when there is none.
LastIndexOf(cs, c) ==
    IF \E i \in 1..Len(cs) : cs[i] = c
    THEN CHOOSE i \in 1..Len(cs) : cs[i] = c /\ \A j \in (i+1)..Len(cs) : cs[j] # c
    ELSE 0

\* Index of the first element of cs equal to c, 0 when there is none.
IndexOf(cs, c) ==
    IF \E i \in 1..Len(cs) : cs[i] = c
    THEN CHOOSE i \in 1..Len(cs) : cs[i] = c /\ \A j \in 1..(i-1) : cs[j] # c
    ELSE 0

(***************************************************************************)
(* path.join / path.normalize (POSIX) on an absolute path: the arguments   *)
(* are joined with '/', split into segments, empty and "." segments are    *)
(* dropped and ".." removes the segment before it (and is dropped at the   *)
(* root).                                                                  *)
(***************************************************************************)
RECURSIVE NormalizeSegs(_, _)
NormalizeSegs(segs, acc) ==
    IF segs = <<>> THEN acc
    ELSE LET s == Head(segs) IN
         IF s = "" \/ s = "." THEN NormalizeSegs(Tail(segs), acc)
         ELSE IF s = ".."
              THEN NormalizeSegs(Tail(segs),
                                 IF acc = <<>> THEN acc ELSE SubSeq(acc, 1, Len(acc) - 1))
              ELSE NormalizeSegs(Tail(segs), Append(acc, s))

Segments(cs) == [i \in 1..Len(SplitSlash(cs, <<>>)) |-> Join(SplitSlash(cs, <<>>)[i])]

\* path.join(BASE_PATH, folder, fileName)
PathJoin(base, folder, fileName) ==
    NormalizeSegs(base \o <<folder>> \o Segments(fileName), <<>>)

(***************************************************************************)
(* path.extname (POSIX): works on the last path component; the extension   *)
(* runs from the last '.' of that component to its end; a component that   *)
(* starts with its only '.', or is "..", has no extension.                 *)
(***************************************************************************)
BaseName(cs) ==
    LET nonEmpty == {i \in 1..Len(SplitSlash(cs, <<>>)) : SplitSlash(cs, <<>>)[i] # <<>>}
    IN  IF nonEmpty = {} THEN <<>>
        ELSE SplitSlash(cs, <<>>)[CHOOSE i \in nonEmpty : \A j \in nonEmpty : j <= i]

\* Variant: from the last '.' of the whole string.
ExtNameLastDot(cs) ==
    IF LastIndexOf(cs, ".") = 0 THEN <<>> ELSE SubSeq(cs, LastIndexOf(cs, "."), Len(cs))

ExtName(cs) ==
    LET b == BaseName(cs)
        d == LastIndexOf(b, ".")
    IN  IF d = 0 \/ d = 1 THEN <<>>
        ELSE IF b = <<".", ".">> THEN <<>>
        ELSE SubSeq(b, d, Len(b))

(***************************************************************************)
(* Buffer.from(s, 'base64'): characters outside the alphabet are skipped,  *)
(* decoding stops at the first '='; '-' and '_' are read as '+' and '/'.   *)
(* Each further sextet after the first of a group of four completes one    *)
(* byte.                                                                   *)
(***************************************************************************)
B64Alphabet ==
    << "A","B","C","D","E","F","G","H","I","J","K","L","M","N","O","P",
       "Q","R","S","T","U","V","W","X","Y","Z","a","b","c","d","e","f",
       "g","h","i","j","k","l","m","n","o","p","q","r","s","t","u","v",
       "w","x","y","z","0","1","2","3","4","5","6","7","8","9","+","/" >>

Unbase64(c) ==
    IF c = "-" THEN 62
    ELSE IF c = "_" THEN 63
    ELSE IF \E i \in 1..64 : B64Alphabet[i] = c
         THEN (CHOOSE i \in 1..64 : B64Alphabet[i] = c) - 1
         ELSE 64

RECURSIVE Sextets(_)
Sextets(cs) ==
    IF cs = <<>> \/ Head(cs) = "=" THEN <<>>
    ELSE IF Unbase64(Head(cs)) < 64 THEN <<Unbase64(Head(cs))>> \o Sextets(Tail(cs))
    ELSE Sextets(Tail(cs))

RECURSIVE SextetsToBytes(_)
SextetsToBytes(v) ==
    IF Len(v) < 2 THEN <<>>
    ELSE IF Len(v) = 2 THEN << (v[1] * 4 + v[2] \div 16) % 256 >>
    ELSE IF Len(v) = 3 THEN << (v[1] * 4 + v[2] \div 16) % 256,
                               ((v[2] % 16) * 16 + v[3] \div 4) % 256 >>
    ELSE << (v[1] * 4 + v[2] \div 16) % 256,
            ((v[2] % 16) * 16 + v[3] \div 4) % 256,
            ((v[3] % 4) * 64 + v[4]) % 256 >>
         \o SextetsToBytes(SubSeq(v, 5, Len(v)))

BufferFromBase64(cs) == SextetsToBytes(Sextets(cs))

(***************************************************************************)
(* decodeBase64, lines 66-72.  The pattern                                 *)
(*     /^data:([A-Za-z-+\/]+);base64,(.+)$/                                *)
(* matches "data:", one or more characters of the class (letters, '-',     *)
(* '+', '/'), the literal ";base64," and one or more characters that are   *)
(* not line terminators, up to the end of the string.  ';' is not in the   *)
(* class, so the mime part ends at the first ';'.                          *)
(***************************************************************************)
Letters == {B64Alphabet[i] : i \in 1..52}

MimeClass == Letters \cup {"-", "+", "/"}

LineTerminators == {"\n", "\r"}

DataPrefix == <<"d", "a", "t", "a", ":">>

Base64Marker == <<";", "b", "a", "s", "e", "6", "4", ",">>

StartsWith(cs, p) == Len(cs) >= Len(p) /\ SubSeq(cs, 1, Len(p)) = p

\* The second capture group of the match, or <<>> when there is no match
\* (a match always captures at least one character).
DataUrlPayload(cs) ==
    IF ~StartsWith(cs, DataPrefix) THEN <<>>
    ELSE LET rest == SubSeq(cs, Len(DataPrefix) + 1, Len(cs))
             semi == IndexOf(rest, ";")
         IN  IF semi <= 1 THEN <<>>
             ELSE LET mime  == SubSeq(rest, 1, semi - 1)
                      after == SubSeq(rest, semi, Len(rest))
                  IN  IF /\ Range(mime) \subseteq MimeClass
                         /\ StartsWith(after, Base64Marker)
                         /\ Len(after) > Len(Base64Marker)
                         /\ Range(SubSeq(after, Len(Base64Marker) + 1, Len(after)))
                                \cap LineTerminators = {}
                      THEN SubSeq(after, Len(Base64Marker) + 1, Len(after))
                      ELSE <<>>

decodeBase64(base64String) ==
    IF DataUrlPayload(base64String) # <<>>
    THEN BufferFromBase64(DataUrlPayload(base64String))
    ELSE BufferFromBase64(base64String)

(***************************************************************************)
(* validateEnvironment, getFolderPath, generateFileName: lines 49-63.      *)
(***************************************************************************)
\* Variant: every string passes.
validateEnvironmentAny(env) == TRUE

validateEnvironment(env) == \E i \in 1..Len(ENVIRONMENTS) : ENVIRONMENTS[i] = env

\* FOLDER_MAP[env]; a key that is not in the map reads as undefined.
getFolderPath(env) == IF env \in DOMAIN FOLDER_MAP THEN FOLDER_MAP[env] ELSE "undefined"

\* randomUUID(): the n-th call of a run returns the n-th value of a
\* duplicate-free stream of version-4 UUIDs.
randomUUID(n) == "uuid" \o ToString(n)

\* Variant: the client's name is kept as the stored name.
generateFileNameOriginal(originalName, uuid) == originalName

generateFileName(originalName, uuid) == <<uuid>> \o ExtName(originalName)

\* The folder test of the GET and DELETE handlers, lines 174 and 206.
\* Variant: no folder test.
validFolderAny(folder) == TRUE

validFolder(folder) == folder = "media" \/ folder = "media-dev"

(***************************************************************************)
(* What clients send.                                                      *)
(***************************************************************************)
S_txt  == <<"a", ".", "t", "x", "t">>
S_png == <<"x", ".", "p", "n", "g">>

B_hi == <<104, 105>>

\* Client-side base64 (RFC 4648, with padding) of a byte sequence.
RECURSIVE Base64Encode(_)
Base64Encode(b) ==
    IF b = <<>> THEN <<>>
    ELSE IF Len(b) = 1
         THEN << B64Alphabet[b[1] \div 4 + 1], B64Alphabet[(b[1] % 4) * 16 + 1], "=", "=" >>
    ELSE IF Len(b) = 2
         THEN << B64Alphabet[b[1] \div 4 + 1],
                 B64Alphabet[(b[1] % 4) * 16 + b[2] \div 16 + 1],
                 B64Alphabet[(b[2] % 16) * 4 + 1], "=" >>
    ELSE << B64Alphabet[b[1] \div 4 + 1],
            B64Alphabet[(b[1] % 4) * 16 + b[2] \div 16 + 1],
            B64Alphabet[(b[2] % 16) * 4 + b[3] \div 64 + 1],
            B64Alphabet[(b[3] % 64) + 1] >>
         \o Base64Encode(SubSeq(b, 4, Len(b)))

Mime_text  == <<"t", "e", "x", "t", "/", "p", "l", "a", "i", "n">>
Mime_audio == <<"a", "u", "d", "i", "o", "/", "m", "p", "3">>

DataUrl(mime, b) == DataPrefix \o mime \o Base64Marker \o Base64Encode(b)

\* The value of data.fields.environment (streamed upload): absent, a raw
\* string, or an object carrying the string under `value`.
EnvStrings == {"production", "development", "staging", "Production"}

NoEnvField == [shape |-> "absent", value |-> ""]

EnvFields ==
    {NoEnvField}
    \cup [shape : {"wrapped"}, value : EnvStrings \cup {""}]
    \cup [shape : {"raw"}, value : {"production", "staging"}]

NoFile == [hasFile |-> FALSE, envField |-> NoEnvField, filename |-> <<>>, bytes |-> <<>>]

\* The result of request.file(): with every environment field, and the few
\* that the retrieval and deletion runs start from.
StreamInputs ==
    {NoFile} \cup [hasFile : {TRUE}, envField : EnvFields, filename : {S_txt}, bytes : {B_hi}]

StreamCore ==
    {NoFile}
    \cup [hasFile : {TRUE}, envField : [shape : {"raw"}, value : {"production", "staging"}],
          filename : {S_txt}, bytes : {B_hi}]

\* request.body of POST /upload/base64; `sent` is the byte sequence the
\* client encoded into `file`.  shape: "object" for a JSON object,
\* "undefined" when the request carries no body (or the JSON null), "string"
\* for a JSON string, which has none of the three properties.
NoBody == [shape |-> "undefined", file |-> <<>>, fileName |-> <<>>, hasEnv |-> FALSE,
           environment |-> "", sent |-> <<>>]

StringBody == [shape |-> "string", file |-> <<>>, fileName |-> <<>>, hasEnv |-> FALSE,
               environment |-> "", sent |-> <<>>]

FileStrings(b) == { Base64Encode(b), DataUrl(Mime_text, b), DataUrl(Mime_audio, b) }

Base64Bodies ==
    {NoBody, StringBody}
    \cup [shape : {"object"}, file : {<<>>, Base64Encode(B_hi)}, fileName : {<<>>},
          hasEnv : {FALSE}, environment : {""}, sent : {B_hi}]
    \cup [shape : {"object"}, file : {<<>>}, fileName : {S_txt}, hasEnv : {TRUE},
          environment : {"staging"}, sent : {<<>>}]
    \cup { [shape |-> "object", file |-> f, fileName |-> S_txt, hasEnv |-> e[1],
            environment |-> e[2],
            sent |-> B_hi] :
              f \in FileStrings(B_hi),
              e \in { <<FALSE, "">>, <<TRUE, "">> } \cup ({TRUE} \X EnvStrings) }

Base64Core ==
    { NoBody,
      [shape |-> "object", file |-> <<>>, fileName |-> S_txt, hasEnv |-> FALSE,
       environment |-> "", sent |-> <<>>],
      [shape |-> "object", file |-> Base64Encode(B_hi), fileName |-> S_txt, hasEnv |-> FALSE,
       environment |-> "",
       sent |-> B_hi],
      [shape |-> "object", file |-> DataUrl(Mime_text, B_hi), fileName |-> S_txt, hasEnv |-> TRUE,
       environment |-> "production", sent |-> B_hi],
      [shape |-> "object", file |-> DataUrl(Mime_audio, B_hi), fileName |-> S_txt, hasEnv |-> TRUE,
       environment |-> "production", sent |-> B_hi] }

(***************************************************************************)
(* State.                                                                  *)
(***************************************************************************)
VARIABLES
    phase,      \* start(): "starting", "listening", "exit(1)"
    initIdx,    \* initStorage: index of the next environment of the loop
    dirs,       \* the directories of the filesystem
    files,      \* the regular files of the filesystem: path -> bytes
    req,        \* the requests being handled (a bag of request records)
    names,      \* the names generateFileName has returned, in order
    uploaded,   \* history: the uploads answered 201
    unlinks,    \* history: path -> the number of times a DELETE has unlinked it
    call        \* a call of generateFileName or decodeBase64 outside any request

vars == <<phase, initIdx, dirs, files, req, names, uploaded, unlinks, call>>

\* A call: the function, its argument (an original name, or a `file`
\* string with the parts it was made of) and, once it has returned, its
\* result.
NoFileString == [isDataUrl |-> FALSE, mime |-> <<>>, payload |-> <<>>, str |-> <<>>]

NoCall == [fn |-> "", originalName |-> <<>>, file |-> NoFileString, returned |-> FALSE,
           out |-> <<>>]

Deleted == DOMAIN unlinks

NoPath == <<>>

\* A request record.  kind: the route; pc: the await the handler stands at,
\* or "done" once replied.  live, goneStart: whether the path was a stored
\* file, or one already deleted, when the handler started; goneEnd: whether
\* it was deleted when the reply was made.  complete: the request carried
\* what the route requires (the file part; `file` and `fileName`); envGiven:
\* the environment string as the client gave it; error: the `error` of the
\* reply; errno, syscall: the code of the filesystem error the handler
\* caught and the call that raised it.
NoEnvGiven == "(absent)"

NewRequest == [kind |-> "", pc |-> "", env |-> "", folder |-> "", fileName |-> <<>>,
               path |-> NoPath, sent |-> <<>>, buf |-> <<>>, status |-> 0, body |-> <<>>,
               by |-> "", url |-> <<>>, live |-> FALSE, goneStart |-> FALSE,
               goneEnd |-> FALSE, complete |-> TRUE, envGiven |-> NoEnvGiven,
               error |-> "", errno |-> "", syscall |-> ""]

Requests == BagToSet(req)

Accept(r) == req (+) SetToBag({r})

Replace(r, r2) == (req (-) SetToBag({r})) (+) SetToBag({r2})

Prefixes(p) == {SubSeq(p, 1, n) : n \in 0..Len(p)}

Parent(p) == SubSeq(p, 1, Len(p) - 1)

Exists(p) == p \in DOMAIN files \/ p \in dirs

UploadedPaths == {u.path : u \in uploaded}

\* files with p created or replaced by content b
WriteFile(p, b) == [q \in DOMAIN files \cup {p} |-> IF q = p THEN b ELSE files[q]]

\* Variant: the name stays.
UnlinkNothing(p) == files

\* Variant: every file of that name goes, whatever its folder.
UnlinkByName(p) == [q \in {q \in DOMAIN files : q[Len(q)] # p[Len(p)]} |-> files[q]]

\* files without p
Unlink(p) == [q \in DOMAIN files \ {p} |-> files[q]]

\* unlinks with one more unlink of p
Unlinked(p) == [q \in DOMAIN unlinks \cup {p} |->
                  IF q = p THEN (IF p \in DOMAIN unlinks THEN unlinks[p] + 1 ELSE 1)
                  ELSE unlinks[q]]

\* A reply: the request is finished.
Reply(r, status, body, by) ==
    [r EXCEPT !.pc = "done", !.status = status, !.body = body, !.by = by,
              !.goneEnd = (r.path \in Deleted)]

\* A reply of the handler with an `error` property.
Fail(r, status, error) == Reply([r EXCEPT !.error = error], status, <<>>, "handler")

Init ==
    /\ phase = "starting"
    /\ initIdx = 1
    /\ dirs = Prefixes(BASE_PATH)
    /\ files = <<>>
    /\ req = EmptyBag
    /\ names = <<>>
    /\ uploaded = {}
    /\ unlinks = <<>>
    /\ call = NoCall

(***************************************************************************)
(* initStorage and start, lines 40-46 and 241-252.                         *)
(***************************************************************************)
initStorage ==
    /\ phase = "starting"
    /\ initIdx <= Len(ENVIRONMENTS)
    /\ dirs' = dirs \cup Prefixes(PathJoin(BASE_PATH, FOLDER_MAP[ENVIRONMENTS[initIdx]], <<>>))
    /\ initIdx' = initIdx + 1
    /\ UNCHANGED <<call, phase, files, req, names, uploaded, unlinks>>

\* Variant: listen without awaiting initStorage.
startEarly ==
    /\ phase = "starting"
    /\ phase' = "listening"
    /\ UNCHANGED <<call, initIdx, dirs, files, req, names, uploaded, unlinks>>

start ==
    /\ phase = "starting"
    /\ initIdx > Len(ENVIRONMENTS)
    /\ phase' = "listening"
    /\ UNCHANGED <<call, initIdx, dirs, files, req, names, uploaded, unlinks>>

\* fs.mkdir rejects (no permission, a file in the way, a read-only disk):
\* initStorage rethrows (line 45), start catches and calls process.exit(1),
\* lines 248-251.
initStorageFail ==
    /\ phase = "starting"
    /\ initIdx <= Len(ENVIRONMENTS)
    /\ phase' = "exit(1)"
    /\ UNCHANGED <<call, initIdx, dirs, files, req, names, uploaded, unlinks>>

\* fastify.listen rejects (the port is taken): lines 246 and 248-251.
listenFail ==
    /\ phase = "starting"
    /\ initIdx > Len(ENVIRONMENTS)
    /\ phase' = "exit(1)"
    /\ UNCHANGED <<call, initIdx, dirs, files, req, names, uploaded, unlinks>>

\* The server takes a request.
Accepting == phase = "listening" /\ BagCardinality(req) < MaxInFlight

(***************************************************************************)
(* POST /upload, lines 75-116.                                             *)
(***************************************************************************)
\* Variant: production when the field is absent or empty.
envOfFieldProduction(envField) ==
    IF envField.shape = "absent" \/ envField.value = "" THEN "production"
    ELSE envField.value

\* lines 87-90
envOfField(envField) ==
    IF envField.shape = "absent" \/ envField.value = "" THEN "development"
    ELSE envField.value

UploadUrl(folderName, fileName) == CDN_BASE \o <<"/", folderName, "/">> \o fileName

\* The record of a 201 reply.
Stored(r) == [path |-> r.path, folder |-> r.folder, fileName |-> r.fileName,
              sent |-> r.sent, stored |-> r.buf]

Reply201(r) == Reply([r EXCEPT !.url = UploadUrl(r.folder, r.fileName)], 201, <<>>, "handler")

\* The handler up to the pipeline: lines 77-101.
UploadStart(data) ==
    /\ Accepting
    /\ LET r0 == [NewRequest EXCEPT !.kind = "upload", !.complete = data.hasFile,
                                     !.envGiven = IF data.envField.shape = "absent"
                                                  THEN NoEnvGiven ELSE data.envField.value]
       IN
       IF ~data.hasFile
       THEN /\ req' = Accept(Fail(r0, 400, "No file provided"))
            /\ UNCHANGED names
       ELSE LET env == envOfField(data.envField) IN
            IF ~validateEnvironment(env)
            THEN /\ req' = Accept(Fail([r0 EXCEPT !.env = env], 400, "Invalid environment"))
                 /\ UNCHANGED names
            ELSE /\ Len(names) < MaxUploads
                 /\ LET folderName == getFolderPath(env)
                        fileName   == generateFileName(data.filename, randomUUID(Len(names) + 1))
                        filePath   == PathJoin(BASE_PATH, folderName, fileName)
                    IN  /\ req' = Accept([r0 EXCEPT !.pc = "pipe", !.env = env,
                                                     !.folder = folderName,
                                                     !.fileName = fileName, !.path = filePath,
                                                     !.sent = data.bytes, !.buf = data.bytes])
                        /\ names' = Append(names, fileName)
    /\ UNCHANGED <<call, phase, initIdx, dirs, files, uploaded, unlinks>>

\* createWriteStream(filePath) opens the file: created, or truncated.  A
\* missing parent directory fails the pipeline: line 112.
UploadOpen ==
    \E r \in Requests :
       /\ r.kind = "upload" /\ r.pc = "pipe"
       /\ IF Parent(r.path) \in dirs /\ r.path \notin dirs
          THEN /\ files' = WriteFile(r.path, <<>>)
               /\ req' = Replace(r, [r EXCEPT !.pc = "write"])
          ELSE /\ req' = Replace(r, Fail(r, 500, "Failed to upload file"))
               /\ UNCHANGED files
       /\ UNCHANGED <<call, phase, initIdx, dirs, names, uploaded, unlinks>>

\* The pipeline writes the stream's bytes and finishes; reply 201: lines 103-111.
UploadFinish ==
    \E r \in Requests :
       /\ r.kind = "upload" /\ r.pc = "write"
       /\ files' = WriteFile(r.path, r.buf)
       /\ req' = Replace(r, Reply201(r))
       /\ uploaded' = uploaded \cup {Stored(r)}
       /\ UNCHANGED <<call, phase, initIdx, dirs, names, unlinks>>

(***************************************************************************)
(* POST /upload/base64, lines 119-161.                                     *)
(***************************************************************************)
\* The handler up to the write: lines 126-146.  Destructuring
\* request.body (line 127) throws a TypeError when the body is undefined or
\* null; the throw is inside the try, so line 159 answers it.
Base64Start(body) ==
    /\ Accepting
    /\ LET r0 == [NewRequest EXCEPT !.kind = "base64",
                                     !.complete = (body.file # <<>> /\ body.fileName # <<>>),
                                     !.envGiven = IF body.hasEnv THEN body.environment
                                                  ELSE NoEnvGiven]
           environment == IF body.hasEnv THEN body.environment ELSE "development"
       IN
       IF body.shape = "undefined"
       THEN /\ req' = Accept(Fail(r0, 500, "Failed to upload file"))
            /\ UNCHANGED names
       ELSE IF body.file = <<>> \/ body.fileName = <<>>
       THEN /\ req' = Accept(Fail(r0, 400, "Missing required fields"))
            /\ UNCHANGED names
       ELSE IF ~validateEnvironment(environment)
            THEN /\ req' = Accept(Fail([r0 EXCEPT !.env = environment], 400,
                                       "Invalid environment"))
                 /\ UNCHANGED names
            ELSE /\ Len(names) < MaxUploads
                 /\ LET buffer       == decodeBase64(body.file)
                        folderName   == getFolderPath(environment)
                        safeFileName == generateFileName(body.fileName, randomUUID(Len(names) + 1))
                        filePath     == PathJoin(BASE_PATH, folderName, safeFileName)
                    IN  /\ req' = Accept([r0 EXCEPT !.pc = "writeFile", !.env = environment,
                                                     !.folder = folderName,
                                                     !.fileName = safeFileName,
                                                     !.path = filePath, !.sent = body.sent,
                                                     !.buf = buffer])
                        /\ names' = Append(names, safeFileName)
    /\ UNCHANGED <<call, phase, initIdx, dirs, files, uploaded, unlinks>>

\* fs.writeFile and the reply: lines 148-156; a failed write is line 157.
Base64Write ==
    \E r \in Requests :
       /\ r.kind = "base64" /\ r.pc = "writeFile"
       /\ IF Parent(r.path) \in dirs /\ r.path \notin dirs
          THEN /\ files' = WriteFile(r.path, r.buf)
               /\ req' = Replace(r, Reply201(r))
               /\ uploaded' = uploaded \cup {Stored(r)}
          ELSE /\ req' = Replace(r, Fail(r, 500, "Failed to upload file"))
               /\ UNCHANGED <<files, uploaded>>
       /\ UNCHANGED <<call, phase, initIdx, dirs, names, unlinks>>

(***************************************************************************)
(* The (folder, fileName) pairs clients ask for: a stored file as its 201  *)
(* reply named it; the same file reached through a parent-directory        *)
(* segment; a stored file's name under an unknown folder; a name that no   *)
(* upload returned under an unknown folder; the current directory; and a   *)
(* name that climbs out of the storage root.                               *)
(***************************************************************************)
DotDot == <<".", ".">>

Climb(folder, fileName) == DotDot \o <<"/", folder, "/">> \o fileName

RequestTargets ==
    {<<u.folder, u.fileName>> : u \in uploaded}
    \cup {<<u.folder, Climb(u.folder, u.fileName)>> : u \in uploaded}
    \cup {<<"nosuchfolder", u.fileName>> : u \in uploaded}
    \cup { <<"nosuchfolder", S_png>>,
           <<"media", <<".">> >>,
           <<"media-dev", DotDot \o <<"/">> \o DotDot \o <<"/", "x">> >> }

\* Lines 171-178 and 203-210: the folder test and the path.
ResolveStart(kind, folder, fileName) ==
    LET r0 == [NewRequest EXCEPT !.kind = kind, !.folder = folder, !.fileName = fileName] IN
    IF ~validFolder(folder)
    THEN Fail(r0, 400, "Invalid folder path")
    ELSE LET filePath == PathJoin(BASE_PATH, folder, fileName) IN
         [r0 EXCEPT !.pc = "access", !.path = filePath,
                    !.live = (filePath \in UploadedPaths /\ filePath \notin Deleted),
                    !.goneStart = (filePath \in Deleted)]

(***************************************************************************)
(* GET /:folder/:fileName, lines 164-193.                                  *)
(***************************************************************************)
GetStart(folder, fileName) ==
    /\ Accepting
    /\ req' = Accept(ResolveStart("get", folder, fileName))
    /\ UNCHANGED <<call, phase, initIdx, dirs, files, names, uploaded, unlinks>>

\* Variant: the check creates what it does not find.
GetAccessTouch ==
    \E r \in Requests :
       /\ r.kind = "get" /\ r.pc = "access"
       /\ files' = IF Exists(r.path) THEN files ELSE WriteFile(r.path, <<>>)
       /\ req' = Replace(r, [r EXCEPT !.pc = "open"])
       /\ UNCHANGED <<call, phase, initIdx, dirs, names, uploaded, unlinks>>

\* await fs.access(filePath): line 181; any rejection is line 186.
GetAccess ==
    \E r \in Requests :
       /\ r.kind = "get" /\ r.pc = "access"
       /\ req' = Replace(r, IF Exists(r.path)
                            THEN [r EXCEPT !.pc = "open"]
                            ELSE Fail(r, 404, "File not found"))
       /\ UNCHANGED <<call, phase, initIdx, dirs, files, names, uploaded, unlinks>>

\* createReadStream(filePath) handed to reply.send: lines 184-185.  The
\* handler has returned; the stream opens the file afterwards.  An open file
\* keeps its bytes when its name is unlinked.  A stream that fails before
\* its first byte (no such file, or a directory) is answered by the
\* framework's error path, not by the handler's catch.
GetOpen ==
    \E r \in Requests :
       /\ r.kind = "get" /\ r.pc = "open"
       /\ req' = Replace(r, IF r.path \in DOMAIN files
                            THEN [r EXCEPT !.pc = "read", !.body = files[r.path]]
                            ELSE Reply(r, 500, <<>>, "framework"))
       /\ UNCHANGED <<call, phase, initIdx, dirs, files, names, uploaded, unlinks>>

\* The stream is read to its end and sent with status 200.
GetRead ==
    \E r \in Requests :
       /\ r.kind = "get" /\ r.pc = "read"
       /\ req' = Replace(r, Reply(r, 200, r.body, "handler"))
       /\ UNCHANGED <<call, phase, initIdx, dirs, files, names, uploaded, unlinks>>

(***************************************************************************)
(* DELETE /:folder/:fileName, lines 196-233.                               *)
(***************************************************************************)
\* The inner catch, lines 220-227, and the outer one, lines 229-231.
\* Variant: no ENOENT case.
DeleteCatchAll(code) == 500

\* Variant: every rejection is "not found".
DeleteCatchNotFound(code) == 404

DeleteCatch(code) == IF code = "ENOENT" THEN 404 ELSE 500

\* The reply to a rejection of fs.access or fs.unlink with the given code.
Caught(r, code) ==
    Fail([r EXCEPT !.errno = code, !.syscall = r.pc], DeleteCatch(code),
         IF DeleteCatch(code) = 404 THEN "File not found" ELSE "Failed to delete file")

DeleteStart(folder, fileName) ==
    /\ Accepting
    /\ req' = Accept(ResolveStart("delete", folder, fileName))
    /\ UNCHANGED <<call, phase, initIdx, dirs, files, names, uploaded, unlinks>>

\* await fs.access(filePath): line 213; ENOENT is lines 221-225.
DeleteAccess ==
    \E r \in Requests :
       /\ r.kind = "delete" /\ r.pc = "access"
       /\ req' = Replace(r, IF Exists(r.path)
                            THEN [r EXCEPT !.pc = "unlink"]
                            ELSE Caught(r, "ENOENT"))
       /\ UNCHANGED <<call, phase, initIdx, dirs, files, names, uploaded, unlinks>>

\* await fs.unlink(filePath): line 214.  ENOENT when the name is gone
\* (lines 221-225); a directory cannot be unlinked (lines 227-231).
DeleteUnlink ==
    \E r \in Requests :
       /\ r.kind = "delete" /\ r.pc = "unlink"
       /\ IF r.path \in DOMAIN files
          THEN /\ files' = Unlink(r.path)
               /\ unlinks' = Unlinked(r.path)
               /\ req' = Replace(r, [Reply(r, 200, <<>>, "handler") EXCEPT !.goneEnd = TRUE])
          ELSE /\ req' = Replace(r, IF r.path \in dirs
                                    THEN Caught(r, "EISDIR")
                                    ELSE Caught(r, "ENOENT"))
               /\ UNCHANGED <<files, unlinks>>
       /\ UNCHANGED <<call, phase, initIdx, dirs, names, uploaded>>

(***************************************************************************)
(* GET /health, lines 236-238: replies at once, reads nothing.             *)
(***************************************************************************)
Health ==
    /\ Accepting
    /\ req' = Accept(Reply([NewRequest EXCEPT !.kind = "health"], 200, <<>>, "handler"))
    /\ UNCHANGED <<call, phase, initIdx, dirs, files, names, uploaded, unlinks>>

\* The reply has been sent and the request is over.
Close ==
    \E r \in Requests :
       /\ r.pc = "done"
       /\ req' = req (-) SetToBag({r})
       /\ UNCHANGED <<call, phase, initIdx, dirs, files, names, uploaded, unlinks>>

(***************************************************************************)
(* The service: every route.                                               *)
(***************************************************************************)
Next ==
    \/ initStorage
    \/ start
    \/ \E data \in StreamCore : UploadStart(data)
    \/ UploadOpen
    \/ UploadFinish
    \/ \E body \in Base64Core : Base64Start(body)
    \/ Base64Write
    \/ \E t \in RequestTargets : GetStart(t[1], t[2])
    \/ GetAccess
    \/ GetOpen
    \/ GetRead
    \/ \E t \in RequestTargets : DeleteStart(t[1], t[2])
    \/ DeleteAccess
    \/ DeleteUnlink
    \/ Close

Spec == Init /\ [][Next]_vars

(***************************************************************************)
(* The service taking up to MaxSerial requests at a time: with one, each   *)
(* request is answered before the next is taken.                           *)
(***************************************************************************)
Serial == BagCardinality(req) < MaxSerial

NextSerial ==
    \/ initStorage
    \/ start
    \/ Serial /\ \E data \in StreamCore : UploadStart(data)
    \/ UploadOpen
    \/ UploadFinish
    \/ Serial /\ \E body \in Base64Core : Base64Start(body)
    \/ Base64Write
    \/ Serial /\ \E t \in RequestTargets : GetStart(t[1], t[2])
    \/ GetAccess
    \/ GetOpen
    \/ GetRead
    \/ Serial /\ \E t \in RequestTargets : DeleteStart(t[1], t[2])
    \/ DeleteAccess
    \/ DeleteUnlink
    \/ Close

SpecSerial == Init /\ [][NextSerial]_vars

(***************************************************************************)
(* The two upload routes alone, over every environment input.              *)
(***************************************************************************)
NextUpload ==
    \/ initStorage
    \/ start
    \/ \E data \in StreamInputs : UploadStart(data)
    \/ UploadOpen
    \/ UploadFinish
    \/ \E body \in Base64Bodies : Base64Start(body)
    \/ Base64Write
    \/ Close

SpecUpload == Init /\ [][NextUpload]_vars

(***************************************************************************)
(* Properties.                                                             *)
(***************************************************************************)
Done(r) == r.pc = "done"

Gets == {r \in Requests : r.kind = "get"}

Deletes == {r \in Requests : r.kind = "delete"}

Uploads == {r \in Requests : r.kind \in {"upload", "base64"}}

\* The 201 record of the stored file at path p.
UploadOf(p) == CHOOSE u \in uploaded : u.path = p

MediaDirs == {PathJoin(BASE_PATH, "media", <<>>), PathJoin(BASE_PATH, "media-dev", <<>>)}

\* fileName holds a path separator or a parent-directory segment.
HasTraversal(fileName) ==
    \/ "/" \in Range(fileName)
    \/ \E i \in 1..Len(SplitSlash(fileName, <<>>)) : SplitSlash(fileName, <<>>)[i] = DotDot

\* C1: round trip.  A GET of a stored file (its upload was answered 201),
\* started and answered while no DELETE has removed the file, is answered 200
\* with the bytes the client uploaded.
C1_RoundTrip ==
    \A r \in Gets :
        (Done(r) /\ r.live /\ ~r.goneEnd)
            => (r.status = 200 /\ r.body = UploadOf(r.path).sent)

\* C2: path-traversal rejection.  A GET or DELETE with a valid folder and a
\* fileName that holds ".." or a separator resolves no path and is answered
\* 400.
C2_TraversalRejected ==
    \A r \in Gets \cup Deletes :
        (validFolder(r.folder) /\ HasTraversal(r.fileName))
            => (r.path = NoPath /\ Done(r) /\ r.status = 400)

\* C3: idempotent delete.  For a DELETE of a stored file: it is never
\* answered 500; one started after the file was deleted is answered 404; one
\* started while the file was stored is answered 200 unless another DELETE
\* removed the file first, and then it is answered 404; and after a 200 the
\* file is gone.
C3_IdempotentDelete ==
    \A r \in Deletes :
        (Done(r) /\ r.path \in UploadedPaths)
            => /\ r.status \in {200, 404}
               /\ r.goneStart => r.status = 404
               /\ (r.live /\ r.status # 200) => (r.goneEnd /\ r.status = 404)
               /\ r.status = 200 => (r.live /\ r.path \notin DOMAIN files /\ r.path \in Deleted)

C3_Witness ==
    \E r \in Deletes :
        /\ Done(r) /\ r.path \in UploadedPaths
        /\ r.goneStart /\ r.status = 404
        /\ unlinks[r.path] = 1

\* C4: folder confinement.  Every path a handler resolves is a direct child
\* of <root>/media or <root>/media-dev, and the only directories made are
\* those two and their ancestors.
C4_Confined ==
    /\ \A r \in Requests : r.path # NoPath => Parent(r.path) \in MediaDirs
    /\ \A d \in dirs : \E m \in MediaDirs : d \in Prefixes(m)

\* C5: retrieval against deletion.  A GET of a stored file, started while the
\* file was stored, ends with 200 and the stored bytes or with the handler's
\* 404, whatever a DELETE does meanwhile.
C5_RaceClean ==
    \A r \in Gets :
        (Done(r) /\ r.live)
            => \/ r.status = 200 /\ r.body = UploadOf(r.path).stored
               \/ r.status = 404 /\ r.by = "handler"

\* C6: environment resolution.  validateEnvironment accepts production and
\* development and nothing else; an upload whose environment is another
\* string (given by the client, or resolved by the handler) is answered 400
\* and resolves no path to write; an upload that
\* resolves a path writes under media for production and under media-dev
\* for development.
C6_EnvironmentResolution ==
    /\ \A e \in EnvStrings \cup {""} :
           validateEnvironment(e) <=> e \in {"production", "development"}
    /\ \A r \in Uploads :
           /\ (r.env \notin {"production", "development"}
                 /\ (r.env # "" \/ r.envGiven # NoEnvGiven))
                 => (Done(r) /\ r.status = 400 /\ r.path = NoPath)
           /\ r.status = 400 => r.path = NoPath
           /\ r.path # NoPath
                 => /\ r.folder = (IF r.env = "production" THEN "media" ELSE "media-dev")
                    /\ Parent(r.path) = PathJoin(BASE_PATH, r.folder, <<>>)
    /\ \A p \in DOMAIN files : (\E r \in Uploads : r.path = p) \/ p \in UploadedPaths

C6_Witness ==
    /\ \E r \in Uploads : Done(r) /\ r.env = "staging" /\ r.status = 400
    /\ \E u \in uploaded : u.folder = "media" /\ u.path \in DOMAIN files

\* C7: unknown folder.  A GET or DELETE whose folder is neither media nor
\* media-dev is answered 400 by the handler at once: it resolves no path and
\* never stands at a filesystem call.
C7_UnknownFolder ==
    \A r \in Gets \cup Deletes :
        ~(r.folder \in {"media", "media-dev"})
            => (Done(r) /\ r.status = 400 /\ r.by = "handler" /\ r.path = NoPath)

C7_Witness ==
    \E r \in Deletes :
        /\ Done(r) /\ r.folder = "nosuchfolder" /\ r.status = 400
        /\ \E u \in uploaded : u.fileName = r.fileName /\ u.path \in DOMAIN files

\* C8: uploads never collide.  No two generated names are equal, no two
\* uploads in progress or answered 201 share a path, and a file answered 201
\* keeps the bytes of its own upload for as long as it is stored.
C8_NoCollision ==
    /\ \A i, j \in 1..Len(names) : i # j => names[i] # names[j]
    /\ \A u \in uploaded : \A r \in Uploads :
           (r.path = u.path) => (Done(r) /\ r.status = 201 /\ Stored(r) = u)
    /\ \A u, v \in uploaded : u.path = v.path => u = v
    /\ \A u \in uploaded : u.path \in DOMAIN files => files[u.path] = u.stored
    /\ BagCardinality(req) = Cardinality(Requests)
         \/ \A r \in Uploads : r.path = NoPath \/ CopiesIn(r, req) = 1

C8_Witness ==
    \E u, v \in uploaded :
        /\ u.fileName # v.fileName
        /\ u.folder = v.folder /\ u.sent = v.sent /\ u.stored = v.stored
        /\ ExtName(u.fileName) = ExtName(v.fileName)
        /\ u.path \in DOMAIN files /\ v.path \in DOMAIN files

\* C9: file lifecycle.  A GET of a stored file that starts and ends before
\* any DELETE removed it is answered 200 with the stored bytes; a GET or
\* DELETE started after the file was deleted is answered 404; a deleted name
\* is never present again; no file is unlinked twice.
C9_Lifecycle ==
    /\ \A r \in Gets :
           (Done(r) /\ r.live /\ ~r.goneEnd)
               => (r.status = 200 /\ r.body = UploadOf(r.path).stored)
    /\ \A r \in Gets \cup Deletes :
           (Done(r) /\ r.goneStart /\ r.path \in UploadedPaths) => r.status = 404
    /\ \A p \in Deleted : p \notin DOMAIN files /\ unlinks[p] = 1
    /\ \A u \in uploaded : u.path \in DOMAIN files \/ u.path \in Deleted

C9_Witness ==
    \E r \in Gets :
        /\ Done(r) /\ r.goneStart /\ r.status = 404
        /\ r.path \in UploadedPaths /\ r.path \notin DOMAIN files /\ unlinks[r.path] = 1

\* C10: error containment.  Every finished request carries one of the
\* statuses 200, 201, 400, 404, 500, and its reply was made by the handler
\* itself.
C10_Contained ==
    \A r \in Requests :
        Done(r) => (r.status \in {200, 201, 400, 404, 500} /\ r.by = "handler")

(***************************************************************************)
(* C11.  Every encoded upload in which `file` or `fileName` is missing or  *)
(* empty, a request without a body included, is answered 400 with the      *)
(* missing-fields error, whatever its environment, and has no file path:   *)
(* nothing is written for it.                                              *)
(***************************************************************************)
C11_MissingFields ==
    \A r \in Requests :
        (r.kind = "base64" /\ ~r.complete)
            => /\ Done(r)
               /\ r.status = 400
               /\ r.error = "Missing required fields"
               /\ r.path = NoPath

(***************************************************************************)
(* The process started on a disk that an earlier run may have left: no     *)
(* storage directory, one of the two, or both, with the files stored       *)
(* there; initStorage or listen may fail.  Uploads are the requests.       *)
(***************************************************************************)
OldName == <<"uuid0", ".", "t", "x", "t">>

B_old == <<111>>

B_old_dev == <<100>>

FilePath(folder, fileName) == PathJoin(BASE_PATH, folder, fileName)

Disks ==
    { [dirs |-> Prefixes(BASE_PATH), files |-> <<>>],
      [dirs |-> Prefixes(FilePath("media", <<>>)),
       files |-> (FilePath("media", OldName) :> B_old)],
      [dirs |-> Prefixes(FilePath("media", <<>>)) \cup Prefixes(FilePath("media-dev", <<>>)),
       files |-> <<>>],
      [dirs |-> Prefixes(FilePath("media", <<>>)) \cup Prefixes(FilePath("media-dev", <<>>)),
       files |-> (FilePath("media", OldName) :> B_old
                  @@ FilePath("media-dev", OldName) :> B_old_dev)] }

InitDisk ==
    /\ phase = "starting"
    /\ initIdx = 1
    /\ \E d \in Disks : dirs = d.dirs /\ files = d.files
    /\ req = EmptyBag
    /\ names = <<>>
    /\ uploaded = {}
    /\ unlinks = <<>>
    /\ call = NoCall

NextStart ==
    \/ initStorage
    \/ initStorageFail
    \/ start
    \/ listenFail
    \/ Serial /\ \E data \in StreamCore : UploadStart(data)
    \/ UploadOpen
    \/ UploadFinish
    \/ Serial /\ \E body \in Base64Core : Base64Start(body)
    \/ Base64Write
    \/ Close

SpecStart == InitDisk /\ [][NextStart]_vars

(***************************************************************************)
(* C12.  Startup ordering.  A request is in the server only while it       *)
(* listens, and it listens only after initStorage has run its loop to the  *)
(* end, with both environment directories in place.  A failure during      *)
(* startup ends the process with exit code 1, and an exited process stays  *)
(* exited: it never listens and holds no request.  While starting, the     *)
(* process removes no directory and changes no stored file, whether the    *)
(* directories were there before or not.                                   *)
(***************************************************************************)
C12_StartupOrdering ==
    /\ [](/\ req # EmptyBag => phase = "listening"
          /\ phase = "listening" => (initIdx > Len(ENVIRONMENTS) /\ MediaDirs \subseteq dirs)
          /\ phase \in {"starting", "listening", "exit(1)"}
          /\ phase = "exit(1)" => req = EmptyBag)
    /\ [][/\ phase = "exit(1)" => phase' = "exit(1)"
          /\ phase = "starting" => (files' = files /\ dirs \subseteq dirs')]_vars

C12_Witness ==
    /\ phase = "listening"
    /\ FilePath("media", OldName) \in DOMAIN files
    /\ files[FilePath("media", OldName)] = B_old
    /\ FilePath("media-dev", OldName) \in DOMAIN files
    /\ files[FilePath("media-dev", OldName)] = B_old_dev
    /\ \E r \in Uploads : Done(r) /\ r.status = 201 /\ r.path \in DOMAIN files

(***************************************************************************)
(* generateFileName and decodeBase64 called on their own: every original   *)
(* name of up to MaxNameLen characters of NameChars, and every `file`      *)
(* string made of a mime type and a payload of up to MaxPayload bytes, or  *)
(* of a payload alone.                                                     *)
(***************************************************************************)
MaxNameLen == 4

MaxPayload == 2

NameChars == {"a", ".", "/"}

PayloadBytes == {104, 105}

SeqsUpTo(S, n) == UNION {[1..k -> S] : k \in 0..n}

OriginalNames == SeqsUpTo(NameChars, MaxNameLen)

Mime_svg == <<"i", "m", "a", "g", "e", "/", "s", "v", "g", "+", "x", "m", "l">>

Mimes == {Mime_text, Mime_audio, Mime_svg}

Base64Files ==
    { [isDataUrl |-> TRUE, mime |-> m, payload |-> Base64Encode(b), str |-> DataUrl(m, b)] :
          m \in Mimes, b \in SeqsUpTo(PayloadBytes, MaxPayload) \ {<<>>} }
    \cup { [isDataUrl |-> FALSE, mime |-> <<>>, payload |-> Base64Encode(b),
            str |-> Base64Encode(b)] : b \in SeqsUpTo(PayloadBytes, MaxPayload) }

InitCalls ==
    /\ phase = "starting"
    /\ initIdx = 1
    /\ dirs = Prefixes(BASE_PATH)
    /\ files = <<>>
    /\ req = EmptyBag
    /\ names = <<>>
    /\ uploaded = {}
    /\ unlinks = <<>>
    /\ \/ \E n \in OriginalNames :
             call = [NoCall EXCEPT !.fn = "generateFileName", !.originalName = n]
       \/ \E f \in Base64Files :
             call = [NoCall EXCEPT !.fn = "decodeBase64", !.file = f]

CallGenerateFileName ==
    /\ call.fn = "generateFileName" /\ ~call.returned
    /\ call' = [call EXCEPT !.returned = TRUE,
                            !.out = generateFileName(call.originalName, randomUUID(1))]
    /\ UNCHANGED <<phase, initIdx, dirs, files, req, names, uploaded, unlinks>>

CallDecodeBase64 ==
    /\ call.fn = "decodeBase64" /\ ~call.returned
    /\ call' = [call EXCEPT !.returned = TRUE, !.out = decodeBase64(call.file.str)]
    /\ UNCHANGED <<phase, initIdx, dirs, files, req, names, uploaded, unlinks>>

NextCalls ==
    \/ CallGenerateFileName
    \/ CallDecodeBase64

SpecCalls == InitCalls /\ [][NextCalls]_vars

Generated == call.fn = "generateFileName" /\ call.returned

\* The part of cs from its last '.' to its end; empty when it has no '.'.
FromLastDot(cs) ==
    IF \A i \in 1..Len(cs) : cs[i] # "." THEN <<>>
    ELSE LET d == CHOOSE i \in 1..Len(cs) : cs[i] = "." /\ \A j \in (i+1)..Len(cs) : cs[j] # "."
         IN  SubSeq(cs, d, Len(cs))

\* cs with the '/' at its end removed.
RECURSIVE StripSlashes(_)
StripSlashes(cs) ==
    IF cs # <<>> /\ cs[Len(cs)] = "/" THEN StripSlashes(SubSeq(cs, 1, Len(cs) - 1)) ELSE cs

\* The last path component of cs: what follows the last '/' that is not at
\* its end.
LastComponent(cs) ==
    LET t == StripSlashes(cs) IN
    IF \A i \in 1..Len(t) : t[i] # "/" THEN t
    ELSE LET k == CHOOSE i \in 1..Len(t) : t[i] = "/" /\ \A j \in (i+1)..Len(t) : t[j] # "/"
         IN  SubSeq(t, k + 1, Len(t))

\* C13 as stated: the generated name is the token followed by the part of
\* the original name from its last '.' to its end, and holds no '/' and is
\* no ".." segment.
C13_LastDotSuffix ==
    Generated
        => /\ call.out = <<randomUUID(1)>> \o FromLastDot(call.originalName)
           /\ "/" \notin Range(call.out)
           /\ call.out # DotDot

\* C13, amended: the extension is taken from the last path component of the
\* original name (what follows its last '/', trailing '/' set aside): it is
\* the part of that component from its last '.' to its end, and it is empty
\* when the component has no '.', when its only '.' is its first character,
\* or when the component is "..".  The generated name is the token followed
\* by that extension; it holds no '/' and no ".." segment.
C13_GeneratedName ==
    Generated
        => LET c   == LastComponent(call.originalName)
               ext == IF c = DotDot \/ (\A i \in 2..Len(c) : c[i] # ".") THEN <<>>
                      ELSE FromLastDot(c)
           IN  /\ call.out = <<randomUUID(1)>> \o ext
               /\ "/" \notin Range(call.out)
               /\ call.out # DotDot
               /\ Len(call.out) <= 1 + Len(call.originalName)

C13_Witness ==
    /\ Generated
    /\ call.originalName = <<"a", ".", "/", "a">>
    /\ call.out = <<randomUUID(1)>>

\* C14: data-URL decoding.  For a `file` string data:<mime>;base64,<payload>
\* of any mime type decodeBase64 returns the bytes that <payload> encodes;
\* for any other string, the bytes that the whole string encodes.
C14_DataUrlDecoding ==
    (call.fn = "decodeBase64" /\ call.returned)
        => call.out = (IF call.file.isDataUrl
                       THEN BufferFromBase64(call.file.payload)
                       ELSE BufferFromBase64(call.file.str))

\* An upload that carries its file (streamed) or both fields (encoded) and
\* leaves the environment to the default: no environment field, or, for
\* the streamed upload, an empty one.
DefaultEnv(r) ==
    /\ r.complete
    /\ \/ r.kind = "upload" /\ r.envGiven \in {NoEnvGiven, ""}
       \/ r.kind = "base64" /\ r.envGiven = NoEnvGiven

\* C15: default environment.  Such an upload is handled as development: its
\* folder is media-dev, its path lies directly under <root>/media-dev, and
\* its reply is 201 with environment development, folder media-dev and the
\* file stored at that path.
C15_DefaultEnvironment ==
    \A r \in Uploads :
        DefaultEnv(r)
            => /\ r.env = "development"
               /\ r.folder = "media-dev"
               /\ Parent(r.path) = FilePath("media-dev", <<>>)
               /\ Parent(r.path) # FilePath("media", <<>>)
               /\ Done(r) => /\ r.status = 201
                             /\ r.path \in DOMAIN files
                             /\ files[r.path] = r.buf
                             /\ r.url = UploadUrl("media-dev", r.fileName)

C15_Witness ==
    /\ \E r \in Uploads : /\ r.kind = "upload" /\ r.envGiven = "" /\ Done(r)
                          /\ r.status = 201 /\ r.folder = "media-dev"
    /\ \E r \in Uploads : /\ r.kind = "base64" /\ r.envGiven = NoEnvGiven /\ Done(r)
                          /\ r.status = 201 /\ r.folder = "media-dev"

(***************************************************************************)
(* The upload routes with failing disk operations: createWriteStream       *)
(* cannot open the file, the copy stops part-way (disk full, the client's  *)
(* stream breaks, the file exceeds limits.fileSize), fs.writeFile rejects. *)
(* The rejection lands in the handler's catch: lines 112-115, 157-160.     *)
(* What was written before the failure stays on disk.                      *)
(***************************************************************************)
FailedWrite(r, code) == Fail([r EXCEPT !.errno = code], 500, "Failed to upload file")

UploadOpenFail ==
    \E r \in Requests :
       /\ r.kind = "upload" /\ r.pc = "pipe"
       /\ req' = Replace(r, FailedWrite(r, "EACCES"))
       /\ UNCHANGED <<call, phase, initIdx, dirs, files, names, uploaded, unlinks>>

UploadCopyFail ==
    \E r \in Requests :
       /\ r.kind = "upload" /\ r.pc = "write"
       /\ \E k \in 0..(Len(r.buf) - 1) : files' = WriteFile(r.path, SubSeq(r.buf, 1, k))
       /\ req' = Replace(r, FailedWrite(r, "ENOSPC"))
       /\ UNCHANGED <<call, phase, initIdx, dirs, names, uploaded, unlinks>>

Base64WriteFail ==
    \E r \in Requests :
       /\ r.kind = "base64" /\ r.pc = "writeFile"
       /\ \/ UNCHANGED files
          \/ /\ Parent(r.path) \in dirs
             /\ \E k \in 0..(Len(r.buf) - 1) : files' = WriteFile(r.path, SubSeq(r.buf, 1, k))
       /\ req' = Replace(r, FailedWrite(r, "ENOSPC"))
       /\ UNCHANGED <<call, phase, initIdx, dirs, names, uploaded, unlinks>>

NextUploadFault ==
    \/ initStorage
    \/ start
    \/ Serial /\ \E data \in StreamCore : UploadStart(data)
    \/ UploadOpen
    \/ UploadOpenFail
    \/ UploadFinish
    \/ UploadCopyFail
    \/ Serial /\ \E body \in Base64Core : Base64Start(body)
    \/ Base64Write
    \/ Base64WriteFail
    \/ Close

SpecUploadFault == Init /\ [][NextUploadFault]_vars

\* C16: upload result consistency.  When an upload is answered 201 the file
\* at <root>/<folder>/<fileName> holds all the bytes the client uploaded,
\* the folder is the one mapped from the environment, and the url is the
\* base origin followed by /<folder>/<fileName>; a streamed upload without
\* a file part is answered 400; an upload whose copy or write failed is
\* answered 500.
C16_UploadResult ==
    \A r \in Uploads :
        /\ (Done(r) /\ r.status = 201)
              => /\ r.path = FilePath(r.folder, r.fileName)
                 /\ r.path \in DOMAIN files
                 /\ files[r.path] = r.sent
                 /\ r.env \in DOMAIN FOLDER_MAP
                 /\ r.folder = FOLDER_MAP[r.env]
                 /\ r.url = CDN_BASE \o <<"/", r.folder, "/">> \o r.fileName
        /\ (r.kind = "upload" /\ ~r.complete) => (Done(r) /\ r.status = 400)
        /\ r.errno # "" => (Done(r) /\ r.status = 500)

(***************************************************************************)
(* DELETE with failing filesystem calls: fs.access or fs.unlink rejects    *)
(* with a code other than ENOENT (no permission on the directory, a        *)
(* read-only disk).  Requests are taken MaxSerial at a time.               *)
(***************************************************************************)
DeleteAccessFail ==
    \E r \in Requests :
       /\ r.kind = "delete" /\ r.pc = "access"
       /\ req' = Replace(r, Caught(r, "EACCES"))
       /\ UNCHANGED <<call, phase, initIdx, dirs, files, names, uploaded, unlinks>>

DeleteUnlinkFail ==
    \E r \in Requests :
       /\ r.kind = "delete" /\ r.pc = "unlink"
       /\ req' = Replace(r, Caught(r, "EROFS"))
       /\ UNCHANGED <<call, phase, initIdx, dirs, files, names, uploaded, unlinks>>

NextDeleteFault ==
    \/ initStorage
    \/ start
    \/ Serial /\ \E data \in StreamCore : UploadStart(data)
    \/ UploadOpen
    \/ UploadFinish
    \/ Serial /\ \E body \in Base64Core : Base64Start(body)
    \/ Base64Write
    \/ Serial /\ \E t \in RequestTargets : DeleteStart(t[1], t[2])
    \/ DeleteAccess
    \/ DeleteAccessFail
    \/ DeleteUnlink
    \/ DeleteUnlinkFail
    \/ Close

SpecDeleteFault == Init /\ [][NextDeleteFault]_vars

\* r is a reply made in this step.
Answered(r) == r \in BagToSet(req') /\ Done(r) /\ CopiesIn(r, req') > CopiesIn(r, req)

\* C17: delete failure mapping.  A DELETE in a valid folder that finds
\* nothing at its path (fs.access or fs.unlink rejects with ENOENT) is
\* answered 404, and that step changes no file and no directory; a DELETE
\* whose fs.access or fs.unlink rejects with any other code is answered
\* 500.  A DELETE is answered 404 only when nothing is at its path, and 200
\* only when no call failed and the file was there and is removed.
C17_DeleteFailureMapping ==
    [][\A r \in BagToSet(req') :
          (Answered(r) /\ r.kind = "delete" /\ validFolder(r.folder))
              => /\ ~Exists(r.path) => r.status \in {404, 500}
                 /\ r.errno = "ENOENT"
                       => (r.status = 404 /\ ~Exists(r.path) /\ files' = files /\ dirs' = dirs)
                 /\ r.errno \notin {"", "ENOENT"} => r.status = 500
                 /\ r.status = 404 => (r.errno = "ENOENT" /\ files' = files)
                 /\ r.status = 200
                       => (r.errno = "" /\ r.path \in DOMAIN files /\ r.path \notin DOMAIN files')
      ]_vars

C17_Witness ==
    \E r \in Deletes :
        /\ Done(r) /\ r.status = 500 /\ r.errno = "EROFS"
        /\ r.path \in UploadedPaths /\ r.path \in DOMAIN files

(***************************************************************************)
(* DELETE requests racing for stored files: up to MaxInFlight requests     *)
(* interleave at their awaits, as the workers of the pm2 cluster           *)
(* (ecosystem.config.js, instances: 3) do on the shared filesystem.  The   *)
(* files come from streamed uploads; each DELETE names a stored file as    *)
(* its 201 reply did.                                                      *)
(***************************************************************************)
StoredTargets == {<<u.folder, u.fileName>> : u \in uploaded}

NextDeleteRace ==
    \/ initStorage
    \/ start
    \/ \E data \in StreamCore : UploadStart(data)
    \/ UploadOpen
    \/ UploadFinish
    \/ \E t \in StoredTargets : DeleteStart(t[1], t[2])
    \/ DeleteAccess
    \/ DeleteUnlink
    \/ Close

SpecDeleteRace == Init /\ [][NextDeleteRace]_vars

\* The replies 200 to a DELETE of path p that are still in the server.
Replies200(p) == {r \in Deletes : Done(r) /\ r.path = p /\ r.status = 200}

\* C18: concurrent deletes of one stored file.  The file is unlinked at
\* most once, so one DELETE at most is answered 200 (every unlink is
\* answered 200 in the same step); a DELETE that started while the file
\* was there is answered 200, or 404 once another has unlinked it, and
\* never 500, also when its fs.access had passed before the other's unlink.
C18_ConcurrentDeletes ==
    \A p \in UploadedPaths :
        /\ p \in Deleted => unlinks[p] = 1
        /\ Replies200(p) # {} => p \in Deleted
        /\ \A r \in Replies200(p) : CopiesIn(r, req) = 1 /\ Replies200(p) = {r}
        /\ \A r \in Deletes :
              (Done(r) /\ r.path = p /\ r.live)
                  => \/ r.status = 200
                     \/ r.status = 404 /\ r.errno = "ENOENT" /\ p \in Deleted

C18_Witness ==
    \E r1, r2 \in Deletes :
        /\ r1.path = r2.path /\ r1.live /\ r2.live
        /\ Done(r1) /\ r1.status = 200
        /\ Done(r2) /\ r2.status = 404 /\ r2.syscall = "unlink"

(***************************************************************************)
(* Streamed uploads and DELETE on a disk that holds files of an earlier    *)
(* run, the same name in both folders.  Clients ask for those files, for   *)
(* the files they have stored, for a name under an unknown folder and for  *)
(* a name that is not stored.  Requests are taken MaxSerial at a time.     *)
(***************************************************************************)
DiskTargets ==
    StoredTargets
    \cup { <<"media", OldName>>, <<"media-dev", OldName>>,
           <<"nosuchfolder", OldName>>, <<"media", S_png>> }

InitStored ==
    /\ phase = "starting"
    /\ initIdx = 1
    /\ dirs = Prefixes(FilePath("media", <<>>)) \cup Prefixes(FilePath("media-dev", <<>>))
    /\ files = (FilePath("media", OldName) :> B_old
                @@ FilePath("media-dev", OldName) :> B_old_dev)
    /\ req = EmptyBag
    /\ names = <<>>
    /\ uploaded = {}
    /\ unlinks = <<>>
    /\ call = NoCall

NextDisk ==
    \/ initStorage
    \/ start
    \/ Serial /\ \E data \in StreamCore : UploadStart(data)
    \/ UploadOpen
    \/ UploadFinish
    \/ Serial /\ \E t \in DiskTargets : DeleteStart(t[1], t[2])
    \/ DeleteAccess
    \/ DeleteUnlink
    \/ Close

SpecDisk == InitStored /\ [][NextDisk]_vars

\* C19: delete frame.  The step in which a DELETE is answered 200 removes
\* the file at <root>/<folder>/<fileName> and nothing else: every other
\* file, one of the same name in the other folder included, is still there
\* with its bytes, no directory changes, and both environment directories
\* exist.
C19_DeleteFrame ==
    [][\A r \in BagToSet(req') :
          (Answered(r) /\ r.kind = "delete" /\ r.status = 200)
              => /\ r.path = FilePath(r.folder, r.fileName)
                 /\ ~HasTraversal(r.fileName)
                       => r.path = BASE_PATH \o <<r.folder, Join(r.fileName)>>
                 /\ r.path \in DOMAIN files
                 /\ DOMAIN files' = DOMAIN files \ {r.path}
                 /\ \A q \in DOMAIN files' : files'[q] = files[q]
                 /\ dirs' = dirs
                 /\ MediaDirs \subseteq dirs'
      ]_vars

C19_Witness ==
    /\ \E r \in Deletes : /\ Done(r) /\ r.status = 200
                          /\ r.path = FilePath("media", OldName)
    /\ FilePath("media", OldName) \notin DOMAIN files
    /\ FilePath("media-dev", OldName) \in DOMAIN files
    /\ files[FilePath("media-dev", OldName)] = B_old_dev

(***************************************************************************)
(* Every route, GET /health included, MaxSerial requests at a time.        *)
(***************************************************************************)
NextRoutes ==
    \/ initStorage
    \/ start
    \/ Serial /\ \E data \in StreamCore : UploadStart(data)
    \/ UploadOpen
    \/ UploadFinish
    \/ Serial /\ \E body \in Base64Core : Base64Start(body)
    \/ Base64Write
    \/ Serial /\ \E t \in DiskTargets : GetStart(t[1], t[2])
    \/ GetAccess
    \/ GetOpen
    \/ GetRead
    \/ Serial /\ \E t \in DiskTargets : DeleteStart(t[1], t[2])
    \/ DeleteAccess
    \/ DeleteUnlink
    \/ Serial /\ Health
    \/ Close

SpecRoutes == Init /\ [][NextRoutes]_vars

\* r is a request that this step has taken or moved on.
Stepped(r) == r \in BagToSet(req') /\ CopiesIn(r, req') > CopiesIn(r, req)

\* C20: non-mutating outcomes.  No step of a GET /:folder/:fileName or of
\* GET /health changes a file or a directory; the step that answers an
\* upload 400 (the only step of that request) changes none; and no step of
\* a DELETE changes any but the one that answers 200, so a DELETE answered
\* 400 or 404 has changed none.
C20_NonMutating ==
    [][\A r \in BagToSet(req') :
          Stepped(r)
              => /\ r.kind \in {"get", "health"} => (files' = files /\ dirs' = dirs)
                 /\ (r.kind \in {"upload", "base64"} /\ Done(r) /\ r.status \in {400, 404})
                       => (files' = files /\ dirs' = dirs /\ r.path = NoPath)
                 /\ (r.kind = "delete" /\ ~(Done(r) /\ r.status = 200))
                       => (files' = files /\ dirs' = dirs)
      ]_vars

C20_Witness ==
    /\ \E r \in Requests : r.kind = "health" /\ Done(r) /\ r.status = 200
    /\ files # <<>>

====
